---- MODULE Spec2Model ----
(***************************************************************************)
(* videoxt: preparation of an extraction request (src/videoxt/preppers.py) *)
(* against the properties of a video (src/videoxt/video.py).               *)
(*                                                                         *)
(* Numbers.  Seconds and frames-per-second are Python floats.  They are    *)
(* modelled as exact multiples of 1/100 (video.py rounds fps and the       *)
(* duration to two decimals), so a second count s is the integer 100*s and *)
(* an fps f the integer 100*f; a product second*fps is then an integer     *)
(* number of 1/10000 frames.  A resize factor is a fraction <<num, den>>.  *)
(*                                                                         *)
(* Values.  A Python value that may be None, a number or a string is a     *)
(* tagged record: None, Num(n), Str(s).  A string is a sequence of         *)
(* symbols; a timestamp string is kept as the list of its ':'-separated    *)
(* segments, each a sequence of one-character strings.                     *)
(***************************************************************************)
EXTENDS Integers, Sequences, FiniteSets, TLC

VARIABLES video, files, stage, request, prepared, call, ret

vars == <<video, files, stage, request, prepared, call, ret>>

---------------------------------------------------------------------------
(* Python values *)

None == [kind |-> "none"]

Num(n) == [kind |-> "num", n |-> n]

Str(s) == [kind |-> "str", s |-> s]

IsNone(v) == v.kind = "none"

IsNumber(v) == v.kind = "num"

IsStr(v) == v.kind = "str"

(* The outcome of a call: a returned value or a raised exception. *)
Ok(v) == [tag |-> "ok", val |-> v]

Raise(e) == [tag |-> "raise", exc |-> e]

NoResult == [tag |-> "none"]

IsOk(r) == r.tag = "ok"

Raised(r, e) == r.tag = "raise" /\ r.exc = e

---------------------------------------------------------------------------
(* Arithmetic *)

(* math.floor(second * fps), both operands in hundredths. *)
FloorProduct(second, fps) == (second * fps) \div 10000

(* int(x) for x = num/den, den > 0: truncation toward zero. *)
IntTrunc(num, den) == IF num >= 0 THEN num \div den ELSE -((-num) \div den)

(* round(num/den, 0) as Python rounds: to nearest, ties to even. *)
RoundHalfEven(num, den) ==
    LET q == num \div den
        r == num - q * den
    IN  IF 2 * r < den THEN q
        ELSE IF 2 * r > den THEN q + 1
        ELSE IF q % 2 = 0 THEN q ELSE q + 1

---------------------------------------------------------------------------
(* Decimal digits *)

DigitChars == <<"0", "1", "2", "3", "4", "5", "6", "7", "8", "9">>

IsDigit(c) == \E i \in 1..10 : DigitChars[i] = c

DigitValue(c) == (CHOOSE i \in 1..10 : DigitChars[i] = c) - 1

RECURSIVE ToDigits(_)
(* str(n) for n >= 0 *)
ToDigits(n) ==
    IF n < 10 THEN <<DigitChars[n + 1]>>
    ELSE Append(ToDigits(n \div 10), DigitChars[(n % 10) + 1])

RECURSIVE FromDigits(_)
(* int(s) for a non-empty string of digits *)
FromDigits(s) ==
    IF Len(s) = 0 THEN 0
    ELSE 10 * FromDigits(SubSeq(s, 1, Len(s) - 1)) + DigitValue(s[Len(s)])

(* A segment zero-padded to width 2. *)
Pad2(n) == IF n < 10 THEN <<"0">> \o ToDigits(n) ELSE ToDigits(n)

---------------------------------------------------------------------------
(* videoxt.utils and videoxt.validators, as preppers.py and video.py use   *)
(* them.  A timestamp is the sequence of its ':'-separated segments, most  *)
(* significant first.                                                      *)

IsNumeric(seg) == Len(seg) > 0 /\ \A i \in 1..Len(seg) : IsDigit(seg[i])

RECURSIVE SegmentsValue(_)
(* The whole seconds a list of numeric segments stands for: each segment   *)
(* is worth 60 times the one after it.                                     *)
SegmentsValue(ts) ==
    IF Len(ts) = 0 THEN 0
    ELSE 60 * SegmentsValue(SubSeq(ts, 1, Len(ts) - 1)) + FromDigits(ts[Len(ts)])

(* U.timestamp_to_seconds: every segment numeric (a sign or any other      *)
(* character is not), every segment but the most significant within 0..59. *)
timestamp_to_seconds(ts) ==
    IF \/ Len(ts) = 0
       \/ \E i \in 1..Len(ts) : ~IsNumeric(ts[i])
       \/ \E i \in 2..Len(ts) : FromDigits(ts[i]) > 59
    THEN Raise("FormatError")
    ELSE Ok(Num(100 * SegmentsValue(ts)))

(* Variant: the hours wrapped at 24, as a time of day. *)
seconds_to_timestamp_wrapping(seconds) ==
    IF seconds < 0 THEN Raise("DomainError")
    ELSE LET whole == seconds \div 100
         IN  Ok(Str(<<ToDigits((whole \div 3600) % 24),
                      Pad2((whole % 3600) \div 60),
                      Pad2(whole % 60)>>))

(* U.seconds_to_timestamp: H:MM:SS of the whole seconds, hours unpadded    *)
(* and unbounded, minutes and seconds padded to width 2.                   *)
seconds_to_timestamp(seconds) ==
    IF seconds < 0 THEN Raise("DomainError")
    ELSE LET whole == seconds \div 100
         IN  Ok(Str(<<ToDigits(whole \div 3600),
                      Pad2((whole % 3600) \div 60),
                      Pad2(whole % 60)>>))

(* V.valid_extraction_range *)
valid_extraction_range(start_second, stop_second, duration_seconds) ==
    IF \/ start_second < 0
       \/ stop_second > duration_seconds
       \/ start_second >= stop_second
    THEN Raise("RangeError")
    ELSE Ok(<<start_second, stop_second, duration_seconds>>)

---------------------------------------------------------------------------
(* video.py *)

(* get_video_properties: fps is rounded to two decimals (an integer number *)
(* of hundredths here) and the duration is round(frame_count / fps, 2).    *)
get_video_properties(video_filepath, fps, frame_count, dimensions) ==
    [filepath         |-> video_filepath,
     dimensions       |-> dimensions,
     fps              |-> fps,
     frame_count      |-> frame_count,
     duration_seconds |-> RoundHalfEven(frame_count * 10000, fps)]

---------------------------------------------------------------------------
(* preppers.py: class ExtractionRange *)

_prepare_start_second(start_time) ==
    IF IsNumber(start_time) THEN Ok(Num(start_time.n))
    ELSE timestamp_to_seconds(start_time.s)

_prepare_stop_second(stop_time) ==
    IF IsNumber(stop_time) THEN Ok(Num(stop_time.n))
    ELSE timestamp_to_seconds(stop_time.s)

(* Variant: start and stop handed to the validator in the wrong order. *)
_validate_range_swapped(start_second, stop_second, duration_seconds) ==
    valid_extraction_range(stop_second.n, start_second.n, duration_seconds)

(* Variant: the validator's verdict is not used. *)
_validate_range_unchecked(start_second, stop_second, duration_seconds) ==
    Ok(<<start_second.n, stop_second.n, duration_seconds>>)

_validate_range(start_second, stop_second, duration_seconds) ==
    valid_extraction_range(start_second.n, stop_second.n, duration_seconds)

(* Variant: the timestamp always recomputed from the seconds. *)
_prepare_start_timestamp_recomputed(start_time) ==
    IF IsStr(start_time)
    THEN seconds_to_timestamp(timestamp_to_seconds(start_time.s).val.n)
    ELSE seconds_to_timestamp(start_time.n)

_prepare_start_timestamp(start_time) ==
    IF IsStr(start_time) THEN Ok(start_time)
    ELSE seconds_to_timestamp(start_time.n)

_prepare_stop_timestamp(stop_time) ==
    IF IsStr(stop_time) THEN Ok(stop_time)
    ELSE seconds_to_timestamp(stop_time.n)

(* Variant: the frame number rounded up. *)
_prepare_start_frame_ceil(start_second, fps) ==
    -FloorProduct(-start_second.n, fps)

_prepare_start_frame(start_second, fps) == FloorProduct(start_second.n, fps)

(* Variant: the stop frame counted inclusively, one past the floor. *)
_prepare_stop_frame_inclusive(stop_second, fps, frame_count) ==
    IF IsNone(stop_second) THEN frame_count
    ELSE FloorProduct(stop_second.n, fps) + 1

_prepare_stop_frame(stop_second, fps, frame_count) ==
    IF IsNone(stop_second) THEN frame_count
    ELSE FloorProduct(stop_second.n, fps)

(* to_dict *)
to_dict(start_second, stop_second, start_timestamp, stop_timestamp, start_frame, stop_frame) ==
    [start_second    |-> start_second.n,
     stop_second     |-> stop_second.n,
     start_timestamp |-> start_timestamp.s,
     stop_timestamp  |-> stop_timestamp.s,
     start_frame     |-> start_frame,
     stop_frame      |-> stop_frame]

(* Variant: a failed validation swallowed, and what was derived before it  *)
(* (the seconds) returned as the description.                              *)
ExtractionRange_partial(duration_seconds, frame_count, start_time, stop_time, fps) ==
    LET start_second == _prepare_start_second(start_time) IN
    IF ~IsOk(start_second) THEN start_second ELSE
    LET stop_second == _prepare_stop_second(stop_time) IN
    IF ~IsOk(stop_second) THEN stop_second ELSE
    LET valid == _validate_range(start_second.val, stop_second.val,
                                 duration_seconds) IN
    IF ~IsOk(valid)
    THEN Ok([start_second |-> start_second.val.n,
             stop_second  |-> stop_second.val.n]) ELSE
    LET start_timestamp == _prepare_start_timestamp(start_time) IN
    IF ~IsOk(start_timestamp) THEN start_timestamp ELSE
    LET stop_timestamp == _prepare_stop_timestamp(stop_time) IN
    IF ~IsOk(stop_timestamp) THEN stop_timestamp ELSE
    Ok(to_dict(start_second.val, stop_second.val,
               start_timestamp.val, stop_timestamp.val,
               _prepare_start_frame(start_second.val, fps),
               _prepare_stop_frame(stop_second.val, fps, frame_count)))

(* ExtractionRange(...) followed by to_dict(): __post_init__ runs the      *)
(* steps in order and the first exception ends the construction.           *)
ExtractionRange(duration_seconds, frame_count, start_time, stop_time, fps) ==
    LET start_second == _prepare_start_second(start_time) IN
    IF ~IsOk(start_second) THEN start_second ELSE
    LET stop_second == _prepare_stop_second(stop_time) IN
    IF ~IsOk(stop_second) THEN stop_second ELSE
    LET valid == _validate_range(start_second.val, stop_second.val,
                                 duration_seconds) IN
    IF ~IsOk(valid) THEN valid ELSE
    LET start_timestamp == _prepare_start_timestamp(start_time) IN
    IF ~IsOk(start_timestamp) THEN start_timestamp ELSE
    LET stop_timestamp == _prepare_stop_timestamp(stop_time) IN
    IF ~IsOk(stop_timestamp) THEN stop_timestamp ELSE
    Ok(to_dict(start_second.val, stop_second.val,
               start_timestamp.val, stop_timestamp.val,
               _prepare_start_frame(start_second.val, fps),
               _prepare_stop_frame(stop_second.val, fps, frame_count)))

---------------------------------------------------------------------------
(* preppers.py: functions *)

(* Variant: fps left out of the None check, so the range is built (and    *)
(* validated) before the missing fps is met in the frame arithmetic.       *)
prepare_extraction_range_fps_unchecked(duration_seconds, frame_count, prepared_start_time, prepared_stop_time, prepared_fps) ==
    IF IsNone(prepared_start_time) \/ IsNone(prepared_stop_time)
    THEN Raise("PreparationError")
    ELSE IF IsNone(prepared_fps)
    THEN LET built == ExtractionRange(duration_seconds, frame_count,
                                      prepared_start_time, prepared_stop_time, 0)
         IN  IF IsOk(built) THEN Raise("TypeError") ELSE built
    ELSE ExtractionRange(duration_seconds, frame_count, prepared_start_time,
                         prepared_stop_time, prepared_fps.n)

prepare_extraction_range(duration_seconds, frame_count, prepared_start_time, prepared_stop_time, prepared_fps) ==
    IF \/ IsNone(prepared_start_time)
       \/ IsNone(prepared_stop_time)
       \/ IsNone(prepared_fps)
    THEN Raise("PreparationError")
    ELSE ExtractionRange(duration_seconds, frame_count, prepared_start_time,
                         prepared_stop_time, prepared_fps.n)

prepare_start_time(request_start_time) ==
    IF ~IsNone(request_start_time) THEN request_start_time ELSE Num(0)

(* Variant: a falsy stop time (0) taken for a missing one. *)
prepare_stop_time_falsy(video_duration_seconds, request_stop_time) ==
    IF ~IsNone(request_stop_time) /\ request_stop_time # Num(0)
    THEN request_stop_time
    ELSE Num(video_duration_seconds)

prepare_stop_time(video_duration_seconds, request_stop_time) ==
    IF ~IsNone(request_stop_time) THEN request_stop_time
    ELSE Num(video_duration_seconds)

(* Variant: the request's fps passed on without the default. *)
prepare_fps_undefaulted(video_fps, request_fps) == request_fps

prepare_fps(video_fps, request_fps) ==
    IF ~IsNone(request_fps) THEN request_fps ELSE Num(video_fps)

(* bool(v) of a value that may be None, a tuple or a string. *)
Truthy(v) ==
    CASE v.kind = "none"  -> FALSE
      [] v.kind = "tuple" -> Len(v.t) > 0
      [] v.kind = "str"   -> Len(v.s) > 0
      [] OTHER            -> TRUE

Tuple(t) == [kind |-> "tuple", t |-> t]

Bool(b) == [kind |-> "bool", b |-> b]

PathValue(p) == [kind |-> "path", p |-> p]

(* Variant: a resize applied to the video's dimensions even when the      *)
(* request names its own.                                                  *)
prepare_dimensions_video_base(video_dimensions, resize, request_dimensions) ==
    IF resize[1] # resize[2]
    THEN <<IntTrunc(video_dimensions[1] * resize[1], resize[2]),
           IntTrunc(video_dimensions[2] * resize[1], resize[2])>>
    ELSE IF Truthy(request_dimensions) THEN request_dimensions.t
    ELSE video_dimensions

(* prepare_dimensions: resize is the fraction <<num, den>>, den > 0. *)
prepare_dimensions(video_dimensions, resize, request_dimensions) ==
    LET dims == IF Truthy(request_dimensions) THEN request_dimensions.t
                ELSE video_dimensions
    IN  IF resize[1] # resize[2]
        THEN <<IntTrunc(dims[1] * resize[1], resize[2]),
               IntTrunc(dims[2] * resize[1], resize[2])>>
        ELSE dims

---------------------------------------------------------------------------
(* pathlib.Path: a directory and a name.  A name is a sequence of          *)
(* characters and a directory the sequence of the names leading to it.     *)

Path(parent, name) == [parent |-> parent, name |-> name]

(* path / name *)
PathJoin(p, name) == Path(Append(p.parent, p.name), name)

(* The path of a directory. *)
DirPath(dir) == Path(SubSeq(dir, 1, Len(dir) - 1), dir[Len(dir)])

(* The index of the last "." of a name, 0 when it has none. *)
LastDot(name) ==
    IF \E i \in 1..Len(name) : name[i] = "."
    THEN CHOOSE i \in 1..Len(name) :
            /\ name[i] = "."
            /\ \A j \in (i + 1)..Len(name) : name[j] # "."
    ELSE 0

(* Path.suffix: from the last "." on, unless that "." starts or ends the   *)
(* name.                                                                   *)
PathSuffix(name) ==
    LET i == LastDot(name)
    IN  IF 1 < i /\ i < Len(name) THEN SubSeq(name, i, Len(name)) ELSE <<>>

(* Path.stem: the name without its suffix. *)
PathStem(name) == SubSeq(name, 1, Len(name) - Len(PathSuffix(name)))

RECURSIVE EnumerateFrom(_, _, _, _)
(* The first of stem + label + N + suffix, N = index, index + 1, ..., that *)
(* does not exist.                                                         *)
EnumerateFrom(filepath, label, index, existing) ==
    LET candidate == Path(filepath.parent,
                          PathStem(filepath.name) \o label \o ToDigits(index)
                              \o PathSuffix(filepath.name))
    IN  IF candidate \notin existing THEN candidate
        ELSE EnumerateFrom(filepath, label, index + 1, existing)

(* U.enumerate_filepath: the path itself when nothing exists there, else   *)
(* its first numbered variant that does not exist.                         *)
enumerate_filepath(filepath, label, existing) ==
    IF filepath \notin existing THEN filepath
    ELSE EnumerateFrom(filepath, label, 1, existing)

RECURSIVE EnumerateProbesFrom(_, _, _, _)
(* The paths EnumerateFrom checks for existence, in order. *)
EnumerateProbesFrom(filepath, label, index, existing) ==
    LET candidate == Path(filepath.parent,
                          PathStem(filepath.name) \o label \o ToDigits(index)
                              \o PathSuffix(filepath.name))
    IN  IF candidate \notin existing THEN <<candidate>>
        ELSE <<candidate>> \o EnumerateProbesFrom(filepath, label, index + 1, existing)

(* The paths U.enumerate_filepath checks for existence, in order: one      *)
(* check per candidate, the last one that of the path it returns.          *)
enumerate_filepath_probes(filepath, label, existing) ==
    IF filepath \notin existing THEN <<filepath>>
    ELSE <<filepath>> \o EnumerateProbesFrom(filepath, label, 1, existing)

(* Variant: an empty suffix rejected like a missing one. *)
suffix_missing_or_empty(prepared_suffix) == ~Truthy(prepared_suffix)

(* prepare_destpath's guard: the suffix is None. *)
suffix_missing(prepared_suffix) == IsNone(prepared_suffix)

(* Variant: the request's directory ignored. *)
destpath_base_dir_of_video(video_filepath, request_destdir) ==
    video_filepath.parent

(* prepare_destpath: base_dir *)
destpath_base_dir(video_filepath, request_destdir) ==
    IF Truthy(request_destdir) THEN request_destdir.p
    ELSE video_filepath.parent

(* Variant: the "." prepended to every suffix. *)
destpath_suffix_prepended(prepared_suffix) == <<".">> \o prepared_suffix.s

(* prepare_destpath: suffix *)
destpath_suffix(prepared_suffix) ==
    IF Len(prepared_suffix.s) > 0 /\ prepared_suffix.s[1] = "."
    THEN prepared_suffix.s
    ELSE <<".">> \o prepared_suffix.s

(* prepare_destpath: filename *)
destpath_filename(video_filepath, request_filename, suffix) ==
    IF Truthy(request_filename) THEN request_filename.s \o suffix
    ELSE PathStem(video_filepath.name) \o suffix

(* Variant: the video's own path not excluded. *)
destpath_overwrites_any(prepared_overwrite, dest_path, video_filepath) ==
    prepared_overwrite = Bool(TRUE)

(* Variant: a missing overwrite flag taken for permission. *)
destpath_overwrites_by_default(prepared_overwrite, dest_path, video_filepath) ==
    prepared_overwrite # Bool(FALSE) /\ dest_path # video_filepath

(* prepare_destpath: the destination is returned as it is. *)
destpath_overwrites(prepared_overwrite, dest_path, video_filepath) ==
    LET overwrite == IF IsNone(prepared_overwrite) THEN Bool(FALSE)
                     ELSE prepared_overwrite
    IN  overwrite = Bool(TRUE) /\ dest_path # video_filepath

(* Variant: the enumeration forgotten: the destination returned as it is   *)
(* when overwriting is not allowed, too.                                   *)
prepare_destpath_unenumerated(video_filepath, request_filename, request_destdir, prepared_suffix, prepared_overwrite, existing) ==
    IF suffix_missing(prepared_suffix) THEN Raise("PreparationError")
    ELSE
    LET base_dir  == destpath_base_dir(video_filepath, request_destdir)
        suffix    == destpath_suffix(prepared_suffix)
        filename  == destpath_filename(video_filepath, request_filename, suffix)
        dest_path == Path(base_dir, filename)
    IN  IF destpath_overwrites(prepared_overwrite, dest_path, video_filepath)
        THEN Ok(dest_path)
        ELSE Ok(dest_path)

(* prepare_destpath; existing is the set of paths that exist on disk. *)
prepare_destpath(video_filepath, request_filename, request_destdir, prepared_suffix, prepared_overwrite, existing) ==
    IF suffix_missing(prepared_suffix) THEN Raise("PreparationError")
    ELSE
    LET base_dir  == destpath_base_dir(video_filepath, request_destdir)
        suffix    == destpath_suffix(prepared_suffix)
        filename  == destpath_filename(video_filepath, request_filename, suffix)
        dest_path == Path(base_dir, filename)
    IN  IF destpath_overwrites(prepared_overwrite, dest_path, video_filepath)
        THEN Ok(dest_path)
        ELSE Ok(enumerate_filepath(dest_path, <<"_", "v", "x", "t">>, existing))

(* Variant: the destination checked for existence by prepare_destpath      *)
(* itself before it is handed to the enumeration.                          *)
destpath_probes_prechecked(video_filepath, request_filename, request_destdir, prepared_suffix, prepared_overwrite, existing) ==
    IF suffix_missing(prepared_suffix) THEN <<>>
    ELSE
    LET base_dir  == destpath_base_dir(video_filepath, request_destdir)
        suffix    == destpath_suffix(prepared_suffix)
        filename  == destpath_filename(video_filepath, request_filename, suffix)
        dest_path == Path(base_dir, filename)
    IN  IF destpath_overwrites(prepared_overwrite, dest_path, video_filepath)
        THEN <<>>
        ELSE <<dest_path>>
                 \o enumerate_filepath_probes(dest_path, <<"_", "v", "x", "t">>, existing)

(* The existence checks a call of prepare_destpath makes: none of its own, *)
(* and those of U.enumerate_filepath when it enumerates.                   *)
destpath_probes(video_filepath, request_filename, request_destdir, prepared_suffix, prepared_overwrite, existing) ==
    IF suffix_missing(prepared_suffix) THEN <<>>
    ELSE
    LET base_dir  == destpath_base_dir(video_filepath, request_destdir)
        suffix    == destpath_suffix(prepared_suffix)
        filename  == destpath_filename(video_filepath, request_filename, suffix)
        dest_path == Path(base_dir, filename)
    IN  IF destpath_overwrites(prepared_overwrite, dest_path, video_filepath)
        THEN <<>>
        ELSE enumerate_filepath_probes(dest_path, <<"_", "v", "x", "t">>, existing)

RECURSIVE EnumerateDirFrom(_, _, _, _)
(* The first of name + label + N, N = index, index + 1, ..., that does not *)
(* exist.                                                                  *)
EnumerateDirFrom(dir_path, label, index, existing) ==
    LET candidate == Path(dir_path.parent,
                          dir_path.name \o label \o ToDigits(index))
    IN  IF candidate \notin existing THEN candidate
        ELSE EnumerateDirFrom(dir_path, label, index + 1, existing)

(* U.enumerate_dir: the same policy for a directory: the path itself when  *)
(* nothing exists there, else its first labelled and numbered variant that *)
(* does not exist.                                                         *)
enumerate_dir(dir_path, label, existing) ==
    IF dir_path \notin existing THEN dir_path
    ELSE EnumerateDirFrom(dir_path, label, 1, existing)

RECURSIVE EnumerateDirProbesFrom(_, _, _, _)
(* The paths EnumerateDirFrom checks for existence, in order. *)
EnumerateDirProbesFrom(dir_path, label, index, existing) ==
    LET candidate == Path(dir_path.parent,
                          dir_path.name \o label \o ToDigits(index))
    IN  IF candidate \notin existing THEN <<candidate>>
        ELSE <<candidate>> \o EnumerateDirProbesFrom(dir_path, label, index + 1, existing)

(* The paths U.enumerate_dir checks for existence, in order. *)
enumerate_dir_probes(dir_path, label, existing) ==
    IF dir_path \notin existing THEN <<dir_path>>
    ELSE <<dir_path>> \o EnumerateDirProbesFrom(dir_path, label, 1, existing)

FramesLabel == <<"_", "f", "r", "a", "m", "e", "s">>

(* Variant: the same enumeration applied to a requested directory. *)
prepare_destpath_frames_enumerating(video_filepath, request_destdir, prepared_overwrite, existing) ==
    LET overwrite == IF IsNone(prepared_overwrite) THEN Bool(FALSE)
                     ELSE prepared_overwrite
        destdir   == IF IsNone(request_destdir)
                     THEN Path(video_filepath.parent, video_filepath.name)
                     ELSE DirPath(request_destdir.p)
    IN  IF overwrite = Bool(TRUE) /\ IsNone(request_destdir)
        THEN Ok(PathJoin(destdir, FramesLabel))
        ELSE IF overwrite = Bool(TRUE) THEN Ok(destdir)
        ELSE Ok(enumerate_dir(destdir, FramesLabel, existing))

(* prepare_destpath_frames *)
prepare_destpath_frames(video_filepath, request_destdir, prepared_overwrite, existing) ==
    LET overwrite == IF IsNone(prepared_overwrite) THEN Bool(FALSE)
                     ELSE prepared_overwrite
    IN  IF IsNone(request_destdir)
        THEN LET default_destdir == Path(video_filepath.parent,
                                         video_filepath.name)
             IN  IF overwrite = Bool(TRUE)
                 THEN Ok(PathJoin(default_destdir, FramesLabel))
                 ELSE Ok(enumerate_dir(default_destdir, FramesLabel, existing))
        ELSE Ok(DirPath(request_destdir.p))

(* The existence checks a call of prepare_destpath_frames makes: those of  *)
(* U.enumerate_dir, when it is called.                                     *)
destpath_frames_probes(video_filepath, request_destdir, prepared_overwrite, existing) ==
    IF IsNone(request_destdir) /\ prepared_overwrite # Bool(TRUE)
    THEN enumerate_dir_probes(Path(video_filepath.parent, video_filepath.name),
                              FramesLabel, existing)
    ELSE <<>>

(* math.ceil(a / b), b # 0 *)
CeilDiv(a, b) == IF b > 0 THEN -((-a) \div b) ELSE -(a \div (-b))

(* Variant: the quotient rounded down. *)
prepare_images_expected_floor(start_frame, stop_frame, capture_rate) ==
    IF IsNone(start_frame) \/ IsNone(stop_frame) \/ IsNone(capture_rate)
    THEN Raise("PreparationError")
    ELSE IF capture_rate.n = 0 THEN Raise("PreparationError")
    ELSE Ok(-CeilDiv(start_frame.n - stop_frame.n, capture_rate.n))

(* Variant: the difference taken the wrong way round. *)
prepare_images_expected_reversed(start_frame, stop_frame, capture_rate) ==
    IF IsNone(start_frame) \/ IsNone(stop_frame) \/ IsNone(capture_rate)
    THEN Raise("PreparationError")
    ELSE IF capture_rate.n = 0 THEN Raise("PreparationError")
    ELSE Ok(CeilDiv(start_frame.n - stop_frame.n, capture_rate.n))

(* prepare_images_expected: a ZeroDivisionError becomes PreparationError. *)
prepare_images_expected(start_frame, stop_frame, capture_rate) ==
    IF IsNone(start_frame) \/ IsNone(stop_frame) \/ IsNone(capture_rate)
    THEN Raise("PreparationError")
    ELSE IF capture_rate.n = 0 THEN Raise("PreparationError")
    ELSE Ok(CeilDiv(stop_frame.n - start_frame.n, capture_rate.n))

---------------------------------------------------------------------------
(* Inputs *)

MaxHalfSeconds == 2

(* How many times in a row a destination is resolved for the same request. *)
MaxCalls == 3

VideoDir == << <<"v", "i", "d", "e", "o", "s">> >>

OtherDir == << <<"o", "u", "t">> >>

(* A directory that does not exist. *)
NewDir == << <<"n", "e", "w">> >>

VideoName == <<"a", ".", "m", "p", "4">>

(* What cv2 reads from the video file: fps in hundredths, frame count,     *)
(* dimensions.                                                             *)
Readings ==
    { [fps |-> 3000, frame_count |-> 600, dimensions |-> <<1920, 1080>>],
      [fps |-> 3000, frame_count |-> 30,  dimensions |-> <<640, 481>>],
      [fps |-> 300,  frame_count |-> 10,  dimensions |-> <<3, 5>>] }

Videos ==
    { get_video_properties(Path(VideoDir, VideoName), r.fps, r.frame_count,
                           r.dimensions) : r \in Readings }

(* Times given as numbers, in hundredths of a second. *)
NumericTimes ==
    {-100, 333, 1000, 2000, 2100} \cup { 50 * k : k \in 0..MaxHalfSeconds }

(* Times given as timestamp strings: 0:00:10, 00:00:10, 0:00:20, 0:0:01,   *)
(* 0:00:03, 20, and the malformed 0:75:00, 0:-1:00 and 1:x0.               *)
TimestampStrings ==
    { << <<"0">>, <<"0", "0">>, <<"1", "0">> >>,
      << <<"0", "0">>, <<"0", "0">>, <<"1", "0">> >>,
      << <<"0">>, <<"0", "0">>, <<"2", "0">> >>,
      << <<"0">>, <<"0">>, <<"0", "1">> >>,
      << <<"0">>, <<"0", "0">>, <<"0", "3">> >>,
      << <<"2", "0">> >>,
      << <<"0">>, <<"7", "5">>, <<"0", "0">> >>,
      << <<"0">>, <<"-", "1">>, <<"0", "0">> >>,
      << <<"1">>, <<"x", "0">> >> }

RequestTimes ==
    {None} \cup { Num(n) : n \in NumericTimes }
           \cup { Str(ts) : ts \in TimestampStrings }

(* fps overrides, in hundredths. *)
RequestFps == {None, Num(1500), Num(6000)}

(* Resize factors num/den. *)
ResizeFactors == { <<1, 1>>, <<1, 2>>, <<3, 2>>, <<1, 3>>, <<1, 6>>, <<1, 8>> }

RequestDimensions == {None, Tuple(<<1280, 720>>), Tuple(<<7, 9>>)}

RequestFilenames == {None, Str(<<>>), Str(<<"b">>), Str(<<"a">>)}

RequestDestdirs ==
    {None, PathValue(OtherDir), PathValue(VideoDir), PathValue(NewDir)}

Suffixes ==
    { None, Str(<<>>), Str(<<"m", "p", "3">>), Str(<<".", "m", "p", "3">>),
      Str(<<"m", "p", "4">>) }

Overwrites == {None, Bool(TRUE), Bool(FALSE)}

(* Files that earlier runs may have left next to the video. *)
LeftoverFiles ==
    { Path(VideoDir, <<"a", ".", "m", "p", "3">>),
      Path(VideoDir, <<"a", "_", "v", "x", "t", "1", ".", "m", "p", "3">>) }

(* A directory of frames that an earlier run may have left. *)
LeftoverDirs ==
    { Path(VideoDir, VideoName \o FramesLabel \o <<"1">>) }

(* What always exists: the video file, its directory and the other         *)
(* directory a request may name.                                           *)
BaseFiles == {Path(VideoDir, VideoName), DirPath(VideoDir), DirPath(OtherDir)}

FileSystems ==
    { BaseFiles \cup S : S \in SUBSET LeftoverFiles }
        \cup { BaseFiles \cup LeftoverFiles \cup LeftoverDirs }

FrameNumbers == {None, Num(0), Num(10), Num(300)}

CaptureRates == {None, Num(0), Num(1), Num(7), Num(-7)}

(* The capture rates the command line accepts (V.positive_int_cli). *)
ValidCaptureRates == {Num(1), Num(7)}

(* Whole seconds, in hundredths: up to and beyond an hour and a day. *)
WholeSeconds ==
    { 100 * n : n \in {0, 59, 60, 3599, 3600, 86399, 86400, 90061, 360000} }

(* More timestamp strings: 0:00:00, 1:01:01, 01:1:1, 25:00:00, 100:59:59   *)
(* and the malformed 0:00:60.                                              *)
HourTimestamps ==
    { << <<"0">>, <<"0", "0">>, <<"0", "0">> >>,
      << <<"1">>, <<"0", "1">>, <<"0", "1">> >>,
      << <<"0", "1">>, <<"1">>, <<"1">> >>,
      << <<"2", "5">>, <<"0", "0">>, <<"0", "0">> >>,
      << <<"1", "0", "0">>, <<"5", "9">>, <<"5", "9">> >>,
      << <<"0">>, <<"0", "0">>, <<"6", "0">> >> }

NoRequest == [start_time |-> None, stop_time |-> None, fps |-> None]

NoCall == [op |-> "none"]

---------------------------------------------------------------------------
(* The state machine: one request against one opened video. *)

Init ==
    /\ video \in Videos
    /\ files \in FileSystems
    /\ stage = "idle"
    /\ request = NoRequest
    /\ prepared = NoRequest
    /\ call = NoCall
    /\ ret = NoResult

(* A request arrives with its optional start time, stop time and fps. *)
Request(start_time, stop_time, fps) ==
    /\ stage = "idle"
    /\ request' = [start_time |-> start_time, stop_time |-> stop_time, fps |-> fps]
    /\ stage' = "requested"
    /\ UNCHANGED <<video, files, prepared, call, ret>>

(* Parameter defaulting: prepare_start_time, prepare_stop_time, prepare_fps. *)
PrepareRequest ==
    /\ stage = "requested"
    /\ prepared' = [start_time |-> prepare_start_time(request.start_time),
                    stop_time  |-> prepare_stop_time(video.duration_seconds,
                                                     request.stop_time),
                    fps        |-> prepare_fps(video.fps, request.fps)]
    /\ stage' = "prepared"
    /\ UNCHANGED <<video, files, request, call, ret>>

(* The call prepare_extraction_range(...) with the given arguments. *)
CallExtractionRange(args, defaulted) ==
    /\ call' = [op         |-> "prepare_extraction_range",
                start_time |-> args.start_time,
                stop_time  |-> args.stop_time,
                fps        |-> args.fps,
                defaulted  |-> defaulted]
    /\ ret' = prepare_extraction_range(video.duration_seconds, video.frame_count,
                                       args.start_time, args.stop_time, args.fps)
    /\ stage' = "resolved"

(* The range is resolved from the prepared values. *)
ResolveRange ==
    /\ stage = "prepared"
    /\ CallExtractionRange(prepared, TRUE)
    /\ UNCHANGED <<video, files, request, prepared>>

(* prepare_extraction_range is called with the request's own values,       *)
(* defaulting skipped.                                                     *)
ResolveUnprepared ==
    /\ stage = "requested"
    /\ CallExtractionRange(request, FALSE)
    /\ UNCHANGED <<video, files, request, prepared>>

ResolveDimensions(resize, request_dimensions) ==
    /\ stage = "idle"
    /\ call' = [op                 |-> "prepare_dimensions",
                resize             |-> resize,
                request_dimensions |-> request_dimensions]
    /\ ret' = Ok(prepare_dimensions(video.dimensions, resize, request_dimensions))
    /\ stage' = "returned"
    /\ UNCHANGED <<video, files, request, prepared>>

ResolveDestpath(request_filename, request_destdir, prepared_suffix, prepared_overwrite) ==
    /\ stage = "idle"
    /\ call' = [op       |-> "prepare_destpath",
                filename  |-> request_filename,
                destdir   |-> request_destdir,
                suffix    |-> prepared_suffix,
                overwrite |-> prepared_overwrite,
                earlier   |-> <<>>,
                probed    |-> destpath_probes(video.filepath, request_filename,
                                              request_destdir, prepared_suffix,
                                              prepared_overwrite, files)]
    /\ ret' = prepare_destpath(video.filepath, request_filename, request_destdir,
                               prepared_suffix, prepared_overwrite, files)
    /\ stage' = "returned"
    /\ UNCHANGED <<video, files, request, prepared>>

(* The extraction writes its output: a file now exists at the path that    *)
(* prepare_destpath returned.                                              *)
CreateDestination ==
    /\ stage = "returned"
    /\ call.op = "prepare_destpath"
    /\ IsOk(ret)
    /\ Len(call.earlier) + 1 < MaxCalls
    /\ files' = files \cup {ret.val}
    /\ stage' = "created"
    /\ UNCHANGED <<video, request, prepared, call, ret>>

(* The same request once more: prepare_destpath with the same arguments,   *)
(* on the file system as it is now.                                        *)
ResolveDestpathAgain ==
    /\ stage = "created"
    /\ call' = [call EXCEPT
                  !.earlier = Append(@, ret.val),
                  !.probed  = destpath_probes(video.filepath, call.filename,
                                              call.destdir, call.suffix,
                                              call.overwrite, files)]
    /\ ret' = prepare_destpath(video.filepath, call.filename, call.destdir,
                               call.suffix, call.overwrite, files)
    /\ stage' = "returned"
    /\ UNCHANGED <<video, files, request, prepared>>

ResolveDestpathFrames(request_destdir, prepared_overwrite) ==
    /\ stage = "idle"
    /\ call' = [op        |-> "prepare_destpath_frames",
                destdir   |-> request_destdir,
                overwrite |-> prepared_overwrite,
                probed    |-> destpath_frames_probes(video.filepath,
                                                     request_destdir,
                                                     prepared_overwrite, files)]
    /\ ret' = prepare_destpath_frames(video.filepath, request_destdir,
                                      prepared_overwrite, files)
    /\ stage' = "returned"
    /\ UNCHANGED <<video, files, request, prepared>>

(* The call prepare_images_expected(...) with the given arguments. *)
CallImagesExpected(start_frame, stop_frame, capture_rate, of_range) ==
    /\ call' = [op           |-> "prepare_images_expected",
                start_frame  |-> start_frame,
                stop_frame   |-> stop_frame,
                capture_rate |-> capture_rate,
                of_range     |-> of_range]
    /\ ret' = prepare_images_expected(start_frame, stop_frame, capture_rate)

ExpectImages(start_frame, stop_frame, capture_rate) ==
    /\ stage = "idle"
    /\ CallImagesExpected(start_frame, stop_frame, capture_rate, FALSE)
    /\ stage' = "returned"
    /\ UNCHANGED <<video, files, request, prepared>>

(* The images expected of the range that was just resolved. *)
ExpectImagesOfRange(capture_rate) ==
    /\ stage = "resolved"
    /\ IsOk(ret)
    /\ CallImagesExpected(Num(ret.val.start_frame), Num(ret.val.stop_frame),
                          capture_rate, TRUE)
    /\ stage' = "estimated"
    /\ UNCHANGED <<video, files, request, prepared>>

(* A timestamp converted to seconds and back. *)
ConvertTimestamp(ts) ==
    /\ stage = "idle"
    /\ call' = [op |-> "timestamp_to_seconds", timestamp |-> ts]
    /\ ret' = LET seconds == timestamp_to_seconds(ts)
              IN  IF IsOk(seconds) THEN seconds_to_timestamp(seconds.val.n)
                  ELSE seconds
    /\ stage' = "returned"
    /\ UNCHANGED <<video, files, request, prepared>>

(* A number of seconds converted to a timestamp and back. *)
ConvertSeconds(seconds) ==
    /\ stage = "idle"
    /\ call' = [op |-> "seconds_to_timestamp", seconds |-> seconds]
    /\ ret' = LET ts == seconds_to_timestamp(seconds)
              IN  IF IsOk(ts) THEN timestamp_to_seconds(ts.val.s) ELSE ts
    /\ stage' = "returned"
    /\ UNCHANGED <<video, files, request, prepared>>

Next ==
    \/ \E st \in RequestTimes, sp \in RequestTimes, f \in RequestFps :
          Request(st, sp, f)
    \/ PrepareRequest
    \/ ResolveRange
    \/ ResolveUnprepared
    \/ \E rs \in ResizeFactors, rd \in RequestDimensions :
          ResolveDimensions(rs, rd)
    \/ \E fn \in RequestFilenames, dd \in RequestDestdirs,
          sx \in Suffixes, ow \in Overwrites :
          ResolveDestpath(fn, dd, sx, ow)
    \/ CreateDestination
    \/ ResolveDestpathAgain
    \/ \E dd \in RequestDestdirs, ow \in Overwrites :
          ResolveDestpathFrames(dd, ow)
    \/ \E sf \in FrameNumbers, ef \in FrameNumbers, cr \in CaptureRates :
          ExpectImages(sf, ef, cr)
    \/ \E cr \in ValidCaptureRates : ExpectImagesOfRange(cr)
    \/ \E ts \in TimestampStrings \cup HourTimestamps : ConvertTimestamp(ts)
    \/ \E n \in WholeSeconds \cup {-100} : ConvertSeconds(n)

Spec == Init /\ [][Next]_vars

---------------------------------------------------------------------------
(* Properties *)

RangeCall == stage = "resolved" /\ call.op = "prepare_extraction_range"

C2_ReturnedRangeInsideVideo ==
    (RangeCall /\ IsOk(ret))
    => /\ 0 <= ret.val.start_second
       /\ ret.val.start_second < ret.val.stop_second
       /\ ret.val.stop_second <= video.duration_seconds

(* A range returned for a timestamp start and a numeric stop. *)
C2_Witness ==
    /\ RangeCall /\ IsOk(ret)
    /\ IsStr(call.start_time) /\ IsNumber(call.stop_time)
    /\ ret.val.start_second > 0

(* C3: when duration = frame_count / fps exactly, a returned range has     *)
(* start_frame = floor(start_second * fps) and start_frame <= stop_frame.  *)
C3_StartFrameIsFloor ==
    (RangeCall /\ IsOk(ret)
               /\ video.duration_seconds * call.fps.n = video.frame_count * 10000)
    => /\ ret.val.start_frame * 10000 <= ret.val.start_second * call.fps.n
       /\ ret.val.start_second * call.fps.n < (ret.val.start_frame + 1) * 10000
       /\ IsNumber(call.start_time) => ret.val.start_second = call.start_time.n
       /\ ret.val.start_frame <= ret.val.stop_frame

(* A start whose product with fps is not a whole number of frames. *)
C3_Witness ==
    /\ RangeCall /\ IsOk(ret)
    /\ video.duration_seconds * call.fps.n = video.frame_count * 10000
    /\ (ret.val.start_second * call.fps.n) % 10000 # 0
    /\ ret.val.start_frame > 0

(* The scenario's video: 20 s, 600 frames, 30 fps. *)
ScenarioVideo ==
    /\ video.duration_seconds = 2000
    /\ video.frame_count = 600
    /\ video.fps = 3000

ScenarioRange(r) ==
    /\ IsOk(r)
    /\ r.val.start_second = 1000
    /\ r.val.stop_second = 2000
    /\ r.val.start_frame = 300
    /\ r.val.stop_frame = 600

C5_AbsentStopUsesFrameCount ==
    (RangeCall /\ call.defaulted /\ IsNone(request.fps) /\ IsOk(ret))
    => IF IsNone(request.stop_time)
       THEN ret.val.stop_frame = video.frame_count
       ELSE /\ ret.val.stop_frame * 10000 <= ret.val.stop_second * video.fps
            /\ ret.val.stop_second * video.fps < (ret.val.stop_frame + 1) * 10000

(* The canonical rendering of a number of hundredths as H:MM:SS. *)
IsTimestampOf(ts, seconds) ==
    /\ Len(ts) = 3
    /\ \A i \in 1..3 : IsNumeric(ts[i])
    /\ Len(ts[1]) = 1 \/ ts[1][1] # "0"
    /\ Len(ts[2]) = 2 /\ FromDigits(ts[2]) <= 59
    /\ Len(ts[3]) = 2 /\ FromDigits(ts[3]) <= 59
    /\ 3600 * FromDigits(ts[1]) + 60 * FromDigits(ts[2]) + FromDigits(ts[3])
         = seconds \div 100

(* C6: in a returned range an endpoint given as a string comes back as     *)
(* that very string, and one given as a number as the H:MM:SS timestamp of *)
(* that number; start and stop independently.                              *)
C6_TimestampsEchoStrings ==
    (RangeCall /\ IsOk(ret))
    => /\ IsStr(call.start_time) => ret.val.start_timestamp = call.start_time.s
       /\ IsStr(call.stop_time) => ret.val.stop_timestamp = call.stop_time.s
       /\ IsNumber(call.start_time)
            => IsTimestampOf(ret.val.start_timestamp, call.start_time.n)
       /\ IsNumber(call.stop_time)
            => IsTimestampOf(ret.val.stop_timestamp, call.stop_time.n)

(* A string start that is not in canonical form, with a numeric stop. *)
C6_Witness ==
    /\ RangeCall /\ IsOk(ret)
    /\ IsStr(call.start_time) /\ IsNumber(call.stop_time)
    /\ ~IsTimestampOf(call.start_time.s, ret.val.start_second)
    /\ ret.val.start_timestamp = call.start_time.s

(* C7: prepare_extraction_range raises PreparationError whenever its start *)
(* time, stop time or fps is None, whatever the other arguments are.       *)
C7_AbsentRaisesPreparationError ==
    (RangeCall /\ (IsNone(call.start_time) \/ IsNone(call.stop_time)
                                           \/ IsNone(call.fps)))
    => Raised(ret, "PreparationError")

(* fps is missing and the start is negative or malformed. *)
C7_Witness ==
    /\ RangeCall /\ IsNone(call.fps)
    /\ \/ call.start_time = Num(-100)
       \/ IsStr(call.start_time) /\ ~IsOk(timestamp_to_seconds(call.start_time.s))
    /\ ~IsNone(call.stop_time)
    /\ Raised(ret, "PreparationError")

(* C8: defaulting keeps every value the request gave (0 included) and      *)
(* fills 0, the video's duration and the video's fps for the missing ones; *)
(* the range resolver run after it gets no None and never raises           *)
(* PreparationError.                                                       *)
C8_DefaultingLeavesNothingAbsent ==
    (stage = "prepared" \/ (RangeCall /\ call.defaulted))
    => /\ prepared.start_time =
            IF IsNone(request.start_time) THEN Num(0) ELSE request.start_time
       /\ prepared.stop_time =
            IF IsNone(request.stop_time) THEN Num(video.duration_seconds)
            ELSE request.stop_time
       /\ prepared.fps =
            IF IsNone(request.fps) THEN Num(video.fps) ELSE request.fps
       /\ RangeCall
            => /\ ~IsNone(call.start_time)
               /\ ~IsNone(call.stop_time)
               /\ ~IsNone(call.fps)
               /\ ~Raised(ret, "PreparationError")

(* A request without fps and with an explicit stop time of 0. *)
C8_Witness ==
    /\ RangeCall /\ call.defaulted
    /\ IsNone(request.fps) /\ IsNone(request.start_time)
    /\ request.stop_time = Num(0)
    /\ call.stop_time = Num(0)

DimensionsCall == stage = "returned" /\ call.op = "prepare_dimensions"

(* The dimensions the resize applies to. *)
BaseDimensions ==
    IF IsNone(call.request_dimensions) THEN video.dimensions
    ELSE call.request_dimensions.t

(* C9: the base is the requested dimensions when given, else the video's;  *)
(* a factor of 1 returns the base, any other factor returns                *)
(* (floor(width * factor), floor(height * factor)); 1920x1080 at 0.5 gives *)
(* 960x540.                                                                *)
C9_DimensionsScaledFromBase ==
    DimensionsCall
    => /\ call.resize[1] = call.resize[2] => ret.val = BaseDimensions
       /\ call.resize[1] # call.resize[2]
            => \A i \in 1..2 :
                  /\ ret.val[i] * call.resize[2] <= BaseDimensions[i] * call.resize[1]
                  /\ BaseDimensions[i] * call.resize[1] < (ret.val[i] + 1) * call.resize[2]
       /\ (video.dimensions = <<1920, 1080>> /\ call.resize = <<1, 2>>
             /\ IsNone(call.request_dimensions))
            => ret.val = <<960, 540>>

(* Requested dimensions resized by a factor that does not divide them. *)
C9_Witness ==
    /\ DimensionsCall
    /\ ~IsNone(call.request_dimensions)
    /\ call.resize = <<1, 2>>
    /\ ret.val = <<3, 4>>

DestpathCall == stage = "returned" /\ call.op = "prepare_destpath"

(* The candidate of the call, directory / (stem + normalized suffix): the  *)
(* directory is the requested one if given, else the video's; the stem is  *)
(* the requested file name if one is given (a non-empty string), else the  *)
(* video's stem; the suffix carries one leading ".".                       *)
CandidateDir == IF IsNone(call.destdir) THEN VideoDir ELSE call.destdir.p

CandidateStem ==
    IF IsNone(call.filename) \/ call.filename = Str(<<>>)
    THEN SubSeq(VideoName, 1, Len(VideoName) - 4)
    ELSE call.filename.s

CandidateSuffix ==
    IF call.suffix.s # <<>> /\ Head(call.suffix.s) = "."
    THEN call.suffix.s ELSE <<".">> \o call.suffix.s

Candidate == Path(CandidateDir, CandidateStem \o CandidateSuffix)

(* The N-th enumerated variant of the candidate: "_vxt" and N between the  *)
(* stem and the suffix of its name (a name that ends in a bare "." has no  *)
(* suffix: the label follows the ".").                                     *)
CandidateVariant(N) ==
    Path(CandidateDir,
         PathStem(Candidate.name) \o <<"_", "v", "x", "t">> \o ToDigits(N)
             \o PathSuffix(Candidate.name))

(* C10, as stated: prepare_destpath raises PreparationError when the       *)
(* suffix is None and when it is the empty string.                         *)
C10_EmptyOrAbsentSuffixRaises ==
    (DestpathCall /\ (IsNone(call.suffix) \/ call.suffix = Str(<<>>)))
    => Raised(ret, "PreparationError")

(* C10, amended: prepare_destpath raises PreparationError, and returns no  *)
(* path, whenever the suffix is None; an empty string is not rejected: it  *)
(* becomes the bare "." that ends the candidate's name, and a path is      *)
(* returned: that candidate, or an enumerated variant of it when a file    *)
(* exists there.                                                           *)
C10_AbsentSuffixRaises ==
    DestpathCall
    => /\ IsNone(call.suffix) => Raised(ret, "PreparationError")
       /\ call.suffix = Str(<<>>)
            => /\ IsOk(ret)
               /\ Candidate.name[Len(Candidate.name)] = "."
               /\ \/ ret.val = Candidate
                  \/ /\ Candidate \in files
                     /\ \E N \in 1..(Cardinality(files) + 1) :
                           ret.val = CandidateVariant(N)

C10_Witness ==
    /\ DestpathCall
    /\ IsNone(call.suffix)
    /\ ~IsNone(call.filename)
    /\ Raised(ret, "PreparationError")

(* C11: with overwrite allowed and a candidate other than the video's      *)
(* path, prepare_destpath returns exactly the candidate, whether or not a  *)
(* file exists there; "mp3" and ".mp3" give the same path.                 *)
C11_OverwriteReturnsCandidate ==
    (/\ DestpathCall
     /\ call.overwrite = Bool(TRUE)
     /\ ~IsNone(call.suffix)
     /\ Candidate # video.filepath)
        => ret = Ok(Candidate)

C11_Witness ==
    /\ DestpathCall
    /\ call.overwrite = Bool(TRUE)
    /\ call.suffix = Str(<<".", "m", "p", "3">>)
    /\ call.destdir = None
    /\ call.filename = None
    /\ Path(VideoDir, <<"a", ".", "m", "p", "3">>) \in files
    /\ ret = Ok(Path(VideoDir, <<"a", ".", "m", "p", "3">>))

(* C12: with overwrite allowed, prepare_destpath never returns the path of *)
(* the video, whatever the file name, directory, suffix and file system.   *)
C12_NeverReturnsVideoPath ==
    (DestpathCall /\ call.overwrite = Bool(TRUE) /\ IsOk(ret))
        => ret.val # video.filepath

C12_Witness ==
    /\ DestpathCall
    /\ call.overwrite = Bool(TRUE)
    /\ ~IsNone(call.suffix)
    /\ Candidate = video.filepath
    /\ IsOk(ret)
    /\ ret.val # video.filepath

(* C13: with overwrite disallowed (False or None) and a file existing at   *)
(* the candidate, prepare_destpath returns a "_vxt<N>" variant that is not *)
(* the candidate and does not exist.                                       *)
C13_ExistingCandidateIsEnumerated ==
    (/\ DestpathCall
     /\ call.overwrite \in {None, Bool(FALSE)}
     /\ ~IsNone(call.suffix)
     /\ Candidate \in files)
        => /\ IsOk(ret)
           /\ ret.val # Candidate
           /\ ret.val \notin files
           /\ \E N \in 1..(Cardinality(files) + 1) : ret.val = CandidateVariant(N)

C13_Witness ==
    /\ DestpathCall
    /\ call.overwrite = None
    /\ ~IsNone(call.suffix)
    /\ Candidate \in files
    /\ Candidate # video.filepath
    /\ IsOk(ret)
    /\ ret.val = CandidateVariant(1)

(* C14: when prepare_destpath enumerates, it returns the first free path   *)
(* in probe order: the candidate if no file exists there, else the variant *)
(* with the lowest N that does not exist.                                  *)
C14_EnumerationReturnsFirstFree ==
    (/\ DestpathCall
     /\ ~IsNone(call.suffix)
     /\ ~(call.overwrite = Bool(TRUE) /\ Candidate # video.filepath))
        => /\ IsOk(ret)
           /\ \/ Candidate \notin files /\ ret.val = Candidate
              \/ /\ Candidate \in files
                 /\ \E N \in 1..(Cardinality(files) + 1) :
                       /\ ret.val = CandidateVariant(N)
                       /\ CandidateVariant(N) \notin files
                       /\ \A k \in 1..(N - 1) : CandidateVariant(k) \in files

C14_Witness ==
    /\ DestpathCall
    /\ call.overwrite = Bool(FALSE)
    /\ ~IsNone(call.suffix)
    /\ Candidate \in files
    /\ CandidateVariant(1) \in files
    /\ IsOk(ret)
    /\ ret.val = CandidateVariant(2)

(* The last call was prepare_images_expected. *)
ImagesCall ==
    stage \in {"returned", "estimated"} /\ call.op = "prepare_images_expected"

(* count is the least integer not below difference / rate (rate # 0). *)
IsCeiling(count, difference, rate) ==
    IF rate > 0
    THEN rate * (count - 1) < difference /\ difference <= rate * count
    ELSE rate * (count - 1) > difference /\ difference >= rate * count

(* C15: prepare_images_expected returns                                    *)
(* ceil((stop_frame - start_frame) / capture_rate) when all three inputs   *)
(* are present and capture_rate # 0 (0, 300, 1 gives 300; 0, 300, 7 gives  *)
(* 43), and raises PreparationError when an input is None or the rate is 0.*)
C15_ImagesExpectedIsCeiling ==
    ImagesCall =>
        LET absent == IsNone(call.start_frame) \/ IsNone(call.stop_frame)
                          \/ IsNone(call.capture_rate)
        IN  /\ (absent \/ call.capture_rate = Num(0))
                  <=> Raised(ret, "PreparationError")
            /\ (~absent /\ call.capture_rate # Num(0))
                  => /\ IsOk(ret)
                     /\ IsCeiling(ret.val,
                                  call.stop_frame.n - call.start_frame.n,
                                  call.capture_rate.n)
            /\ (call.start_frame = Num(0) /\ call.stop_frame = Num(300))
                  => /\ call.capture_rate = Num(1) => ret = Ok(300)
                     /\ call.capture_rate = Num(7) => ret = Ok(43)

C15_Witness ==
    /\ ImagesCall
    /\ call.start_frame = Num(0)
    /\ call.stop_frame = Num(300)
    /\ call.capture_rate = Num(7)
    /\ ret = Ok(43)

(* A well-formed H:MM:SS string: three numeric segments, minutes and       *)
(* seconds within 0..59.                                                   *)
IsValidHMS(ts) ==
    /\ Len(ts) = 3
    /\ \A i \in 1..3 : IsNumeric(ts[i])
    /\ FromDigits(ts[2]) <= 59
    /\ FromDigits(ts[3]) <= 59

(* canon is the canonical form of ts: the same three numbers, the hours    *)
(* without padding, the minutes and seconds of width 2.                    *)
IsCanonicalFormOf(canon, ts) ==
    /\ Len(canon) = 3
    /\ \A i \in 1..3 : IsNumeric(canon[i]) /\ FromDigits(canon[i]) = FromDigits(ts[i])
    /\ Len(canon[1]) = 1 \/ canon[1][1] # "0"
    /\ Len(canon[2]) = 2
    /\ Len(canon[3]) = 2

(* C16: timestamp_to_seconds and seconds_to_timestamp are inverses on      *)
(* canonical values: a valid H:MM:SS string comes back in canonical form,  *)
(* and a whole number of seconds n >= 0 comes back as n, with no wrap of   *)
(* the hours at 24.                                                        *)
C16_ConversionsRoundTrip ==
    /\ (stage = "returned" /\ call.op = "timestamp_to_seconds"
            /\ IsValidHMS(call.timestamp))
          => IsOk(ret) /\ IsStr(ret.val)
                /\ IsCanonicalFormOf(ret.val.s, call.timestamp)
    /\ (stage = "returned" /\ call.op = "seconds_to_timestamp"
            /\ call.seconds >= 0)
          => ret = Ok(Num(call.seconds))

C16_Witness ==
    /\ stage = "returned"
    /\ call.op = "seconds_to_timestamp"
    /\ call.seconds = 100 * 90061
    /\ ret = Ok(Num(100 * 90061))

(* The last call was prepare_destpath_frames. *)
FramesCall == stage = "returned" /\ call.op = "prepare_destpath_frames"

(* C17, as stated: whenever overwrite is disallowed, the directory         *)
(* prepare_destpath_frames returns does not exist yet, be it the default   *)
(* one or a requested one: an existing directory is enumerated.            *)
C17_DisallowedOverwriteEnumerates ==
    (FramesCall /\ call.overwrite \in {None, Bool(FALSE)})
        => IsOk(ret) /\ ret.val \notin files

(* C17, amended: prepare_destpath_frames enumerates only the default       *)
(* directory: with no directory requested and overwrite disallowed the     *)
(* directory returned does not exist; a requested directory is returned as *)
(* it is, existing or not, whatever the overwrite flag.                    *)
C17_OnlyDefaultDirectoryEnumerated ==
    /\ (FramesCall /\ IsNone(call.destdir)
            /\ call.overwrite \in {None, Bool(FALSE)})
          => IsOk(ret) /\ ret.val \notin files
    /\ (FramesCall /\ ~IsNone(call.destdir))
          => ret = Ok(DirPath(call.destdir.p))

C17_Witness ==
    /\ FramesCall
    /\ call.overwrite = Bool(FALSE)
    /\ call.destdir = PathValue(OtherDir)
    /\ IsOk(ret)
    /\ ret.val \in files

(* s starts with prefix. *)
HasPrefix(s, prefix) ==
    Len(s) >= Len(prefix) /\ SubSeq(s, 1, Len(prefix)) = prefix

(* C18: with no directory requested, prepare_destpath_frames returns a     *)
(* directory beside the video file (same parent) whose name is the video   *)
(* file's name followed by "_frames" (and, when enumerated, a number),     *)
(* with overwrite True as with overwrite False.                            *)
C18_DefaultFramesDirBesideVideo ==
    (FramesCall /\ IsNone(call.destdir))
        => /\ IsOk(ret)
           /\ ret.val.parent = video.filepath.parent
           /\ HasPrefix(ret.val.name, video.filepath.name \o FramesLabel)

(* The six values a resolved range describes. *)
RangeKeys ==
    {"start_second", "stop_second", "start_timestamp", "stop_timestamp",
     "start_frame", "stop_frame"}

(* C19: prepare_extraction_range is all-or-nothing: it raises and returns  *)
(* nothing, or it returns a description with all six values; never one     *)
(* with only some of them.                                                 *)
C19_RangeIsAllOrNothing ==
    RangeCall =>
        \/ ret.tag = "raise"
        \/ IsOk(ret) /\ DOMAIN ret.val = RangeKeys

C19_Witness ==
    /\ RangeCall
    /\ IsNumber(call.start_time)
    /\ IsNumber(call.stop_time)
    /\ call.start_time.n > call.stop_time.n
    /\ call.start_time.n <= video.duration_seconds
    /\ ~IsNone(call.fps)
    /\ Raised(ret, "RangeError")

(* C20: for a range that prepare_extraction_range returned and a capture   *)
(* rate >= 1, the images expected of its start_frame and stop_frame are    *)
(* never negative.                                                         *)
C20_ImagesExpectedOfRangeNotNegative ==
    (ImagesCall /\ call.of_range /\ call.capture_rate.n >= 1)
        => IsOk(ret) /\ ret.val >= 0

C20_Witness ==
    /\ ImagesCall
    /\ call.of_range
    /\ call.capture_rate = Num(7)
    /\ call.start_frame.n > 0
    /\ call.stop_frame.n > call.start_frame.n
    /\ IsOk(ret)
    /\ ret.val >= 1

DurationIsExact ==
    video.duration_seconds * video.fps = video.frame_count * 10000

(* C24: for a range resolved with the video's own fps, the duration being  *)
(* frame_count / fps, 0 <= start_frame <= stop_frame <= frame_count; with  *)
(* an fps override above the video's fps the validated range can have      *)
(* stop_frame > frame_count (it does whenever the range runs to the end    *)
(* of the video and the override is at least twice the video's fps): only  *)
(* the seconds are validated.                                              *)
C24_FramesInsideVideoAtOwnFps ==
    (RangeCall /\ IsOk(ret) /\ DurationIsExact)
        => /\ call.fps = Num(video.fps)
                => /\ 0 <= ret.val.start_frame
                   /\ ret.val.start_frame <= ret.val.stop_frame
                   /\ ret.val.stop_frame <= video.frame_count
           /\ (/\ call.fps.n >= 2 * video.fps
               /\ ret.val.stop_second = video.duration_seconds
               /\ video.frame_count > 0)
                => ret.val.stop_frame > video.frame_count

(* A validated range whose stop frame lies beyond the video's last frame. *)
C24_Witness ==
    /\ RangeCall
    /\ IsOk(ret)
    /\ DurationIsExact
    /\ call.fps.n > video.fps
    /\ ret.val.stop_second <= video.duration_seconds
    /\ ret.val.stop_frame > video.frame_count

(* path is the candidate of the call or one of its enumerated variants. *)
IsCandidateNamed(path) ==
    \/ path = Candidate
    \/ \E N \in 1..(Cardinality(files) + 1) : path = CandidateVariant(N)

(* The enumeration number of a candidate-named path: 0 for the bare        *)
(* candidate, N for its N-th variant.                                      *)
EnumerationNumber(path) ==
    IF path = Candidate THEN 0
    ELSE CHOOSE N \in 1..(Cardinality(files) + 1) : path = CandidateVariant(N)

(* C21: when prepare_destpath is called again and again with the same      *)
(* arguments and overwrite disallowed, the file at each returned path being *)
(* created before the next call and none deleted, the returned paths are   *)
(* pairwise distinct, none names a file that exists when it is returned,   *)
(* and their enumeration numbers strictly increase.                        *)
C21_RepeatedCallsNeverCollide ==
    (DestpathCall /\ call.overwrite \in {None, Bool(FALSE)} /\ IsOk(ret))
        => LET paths == Append(call.earlier, ret.val)
           IN  /\ ret.val \notin files
               /\ \A i \in 1..Len(paths) : IsCandidateNamed(paths[i])
               /\ \A i \in 1..Len(paths) : \A j \in (i + 1)..Len(paths) :
                     /\ paths[i] # paths[j]
                     /\ EnumerationNumber(paths[i]) < EnumerationNumber(paths[j])

(* Three calls on a file system where variant 1 exists but the candidate   *)
(* does not: the candidate, then variant 2, then variant 3.                *)
C21_Witness ==
    /\ DestpathCall
    /\ call.overwrite = Bool(FALSE)
    /\ ~IsNone(call.suffix)
    /\ Len(call.earlier) = 2
    /\ call.earlier[1] = Candidate
    /\ call.earlier[2] = CandidateVariant(2)
    /\ ret = Ok(CandidateVariant(3))

(* The N-th enumerated variant of the default frames directory. *)
FramesVariant(N) ==
    Path(video.filepath.parent, video.filepath.name \o FramesLabel \o ToDigits(N))

(* path is the default frames directory as enumerate_dir is given it, or   *)
(* one of its enumerated variants.                                         *)
IsFramesNamed(path) ==
    \/ path = video.filepath
    \/ \E N \in 1..(Cardinality(files) + 1) : path = FramesVariant(N)

(* The probes are one existence check per candidate, in order, stopping at *)
(* the first candidate that does not exist, which is the result; so at     *)
(* most (named + 1) probes, named the number of existing candidate-named   *)
(* paths.                                                                  *)
ProbesAreBounded(probes, first, result, named) ==
    /\ Len(probes) >= 1
    /\ probes[1] = first
    /\ \A i \in 1..(Len(probes) - 1) : probes[i] \in files
    /\ probes[Len(probes)] \notin files
    /\ result = Ok(probes[Len(probes)])
    /\ \A i \in 1..Len(probes) : \A j \in (i + 1)..Len(probes) :
          probes[i] # probes[j]
    /\ Len(probes) <= named + 1

(* C22: destination enumeration ends on a finite file system: one          *)
(* existence check per candidate, stopping at the first candidate that     *)
(* does not exist, hence at most (existing candidate-named paths + 1)      *)
(* probes, in prepare_destpath and in prepare_destpath_frames.             *)
C22_EnumerationProbesAreBounded ==
    /\ (/\ DestpathCall
        /\ ~IsNone(call.suffix)
        /\ ~(call.overwrite = Bool(TRUE) /\ Candidate # video.filepath))
          => /\ \A i \in 1..Len(call.probed) : IsCandidateNamed(call.probed[i])
             /\ ProbesAreBounded(call.probed, Candidate, ret,
                    Cardinality({f \in files : IsCandidateNamed(f)}))
    /\ (FramesCall /\ IsNone(call.destdir) /\ call.overwrite # Bool(TRUE))
          => /\ \A i \in 1..Len(call.probed) : IsFramesNamed(call.probed[i])
             /\ ProbesAreBounded(call.probed, video.filepath, ret,
                    Cardinality({f \in files : IsFramesNamed(f)}))

(* The candidate and its first variant exist: three probes, the bound. *)
C22_Witness ==
    /\ DestpathCall
    /\ ~IsNone(call.suffix)
    /\ call.earlier = <<>>
    /\ Cardinality({f \in files : IsCandidateNamed(f)}) = 2
    /\ Len(call.probed) = 3
    /\ ret = Ok(CandidateVariant(2))

====
